---- MODULE Spec2Model ----
(***************************************************************************)
(* split_pdf (src/split_pdf.py): splitting a document into parts of a      *)
(* maximum serialized size.                                                *)
(*                                                                         *)
(* A page is its 1-based position in the document.  A writer is the        *)
(* sequence of the pages added to it.  The bytes a writer serializes to    *)
(* are known by their length only; the serializer (PyPDF2) is outside the  *)
(* repository, so the length of a sequence of two or more pages is drawn   *)
(* the first time the sequence is serialized and is the same on every      *)
(* later serialization of that sequence.  The length of each page          *)
(* serialized alone is drawn with the document.                            *)
(*                                                                         *)
(* Two runs of split_pdf on the same document and ceiling are modelled,    *)
(* one after the other, each writing into its own output directory.        *)
(***************************************************************************)
EXTENDS Integers, Sequences, FiniteSets, TLC

\* Largest number of pages of the document.
MaxPages == 4
\* Largest serialized length (in bytes) of a sequence of pages.
MaxSize == 2

VARIABLES
    num_pages,    \* len(reader.pages)
    max_bytes,    \* the ceiling in bytes
    serialized,   \* page sequence -> length of its serialization, as far as known
    run,          \* the run of split_pdf in progress (1 or 2)
    pc,           \* run -> position of that run in split_pdf
    page_index,   \* loop variable: the page last taken from reader.pages
    part_index,   \* index of the next part file
    writer,       \* pages of the current PdfWriter
    written       \* run -> the write_bytes calls completed, in order

vars == <<num_pages, max_bytes, serialized, run, pc, page_index, part_index,
          writer, written>>

Runs == 1..2

\* max_mb * 1024 * 1024 is a float; it is given here in half bytes.
MaxMbHalves == (0 - 3)..(2 * MaxSize + 1)

\* int(max_mb * 1024 * 1024): truncation toward zero.
to_max_bytes(halves) ==
    IF halves >= 0 THEN halves \div 2 ELSE 0 - ((0 - halves) \div 2)

\* reader.pages
Document == [i \in 1..num_pages |-> i]

\* The lengths bytes_for_writer(w) may have: the one already observed for w,
\* or any length when w is serialized for the first time.
bytes_for_writer(w) ==
    IF w \in DOMAIN serialized THEN {serialized[w]} ELSE 1..MaxSize

\* What is known of the serializer once w has been serialized to n bytes.
Observed(w, n) ==
    IF w \in DOMAIN serialized THEN serialized ELSE (w :> n) @@ serialized

remove_last_page_noop(w, has_remove_page) == w

\* has_remove_page: hasattr(writer, "remove_page").
remove_last_page(w, has_remove_page) ==
    IF has_remove_page
    THEN SubSeq(w, 1, Len(w) - 1)
    ELSE IF Len(w) = 0 THEN w ELSE SubSeq(w, 1, Len(w) - 1)

OverflowsInclusive(n, w) == n >= max_bytes /\ Len(w) > 1

OverflowsMultiPageOff(n, w) == n > max_bytes + 1 /\ Len(w) > 1

OverflowsAnyLength(n, w) == n > max_bytes

\* len(current_bytes) > max_bytes and len(writer.pages) > 1
Overflows(n, w) == n > max_bytes /\ Len(w) > 1

\* len(single_bytes) > max_bytes
SingleOverflows(n) == n > max_bytes

next_part_index_same(i) == i

\* part_index += 1
next_part_index(i) == i + 1

\* output_dir / f"{base_name}_part{part_index}.pdf"; output_dir is the run's.
output_path(r, i) == <<r, "part", i>>

\* output_path.write_bytes(...) of the pages w serialized to n bytes.
write_bytes(r, i, w, n) ==
    written' = [written EXCEPT
                  ![r] = Append(@, [path |-> output_path(r, i),
                                    index |-> i, pages |-> w, len |-> n])]

RaiseCleaningUp ==
    /\ pc' = [pc EXCEPT ![run] = "failed"]
    /\ written' = [written EXCEPT ![run] = <<>>]
    /\ UNCHANGED <<num_pages, max_bytes, serialized, run, page_index,
                   part_index, writer>>

\* An exception of bytes_for_writer or write_bytes: split_pdf catches none,
\* so the run ends there.
Raise ==
    /\ pc' = [pc EXCEPT ![run] = "failed"]
    /\ UNCHANGED <<num_pages, max_bytes, serialized, run, page_index,
                   part_index, writer, written>>

EnterSplitKeepingWriter ==
    /\ part_index' = 1
    /\ writer' = writer
    /\ page_index' = 0

\* part_index = 1; writer = PdfWriter(); the loop has taken no page yet.
EnterSplit ==
    /\ part_index' = 1
    /\ writer' = <<>>
    /\ page_index' = 0

Init ==
    /\ num_pages \in 0..MaxPages
    /\ \E halves \in MaxMbHalves : max_bytes = to_max_bytes(halves)
    /\ serialized \in [{<<p>> : p \in 1..num_pages} -> 1..MaxSize]
    /\ run = 1
    /\ pc = [r \in Runs |-> IF r = 1 THEN "loop" ELSE "notrun"]
    /\ page_index = 0
    /\ part_index = 1
    /\ writer = <<>>
    /\ written = [r \in Runs |-> <<>>]

\* for page_index, page in enumerate(reader.pages, start=1): writer.add_page(page)
AddPage ==
    /\ pc[run] = "loop"
    /\ page_index < num_pages
    /\ page_index' = page_index + 1
    /\ writer' = Append(writer, Document[page_index + 1])
    /\ pc' = [pc EXCEPT ![run] = "measure"]
    /\ UNCHANGED <<num_pages, max_bytes, serialized, run, part_index, written>>

\* reader.pages is exhausted.
LoopEnd ==
    /\ pc[run] = "loop"
    /\ page_index = num_pages
    /\ pc' = [pc EXCEPT ![run] = "flush"]
    /\ UNCHANGED <<num_pages, max_bytes, serialized, run, page_index,
                   part_index, writer, written>>

\* current_bytes = bytes_for_writer(writer); the test of the if.
Measure ==
    /\ pc[run] = "measure"
    /\ \E n \in bytes_for_writer(writer) :
          /\ serialized' = Observed(writer, n)
          /\ pc' = [pc EXCEPT
                      ![run] = IF Overflows(n, writer) THEN "rollback" ELSE "loop"]
    /\ UNCHANGED <<num_pages, max_bytes, run, page_index, part_index, writer,
                   written>>

MeasureFails ==
    /\ pc[run] = "measure"
    /\ Raise

\* The body of the if up to writer.add_page(page).
Rollback ==
    /\ pc[run] = "rollback"
    /\ \E has_remove_page \in BOOLEAN :
          LET w == remove_last_page(writer, has_remove_page) IN
          \E n \in bytes_for_writer(w) :
             /\ serialized' = Observed(w, n)
             /\ write_bytes(run, part_index, w, n)
    /\ part_index' = next_part_index(part_index)
    /\ writer' = Append(<<>>, Document[page_index])
    /\ pc' = [pc EXCEPT ![run] = "solo"]
    /\ UNCHANGED <<num_pages, max_bytes, run, page_index>>

RollbackFails ==
    /\ pc[run] = "rollback"
    /\ Raise

\* single_bytes = bytes_for_writer(writer) and the inner if.
Solo ==
    /\ pc[run] = "solo"
    /\ \E n \in bytes_for_writer(writer) :
          /\ serialized' = Observed(writer, n)
          /\ IF SingleOverflows(n)
             THEN /\ write_bytes(run, part_index, writer, n)
                  /\ part_index' = next_part_index(part_index)
                  /\ writer' = <<>>
             ELSE UNCHANGED <<written, part_index, writer>>
    /\ pc' = [pc EXCEPT ![run] = "loop"]
    /\ UNCHANGED <<num_pages, max_bytes, run, page_index>>

SoloFails ==
    /\ pc[run] = "solo"
    /\ Raise

\* if len(writer.pages) > 0: write the trailing part.
Flush ==
    /\ pc[run] = "flush"
    /\ IF Len(writer) > 0
       THEN \E n \in bytes_for_writer(writer) :
               /\ serialized' = Observed(writer, n)
               /\ write_bytes(run, part_index, writer, n)
       ELSE UNCHANGED <<serialized, written>>
    /\ pc' = [pc EXCEPT ![run] = "done"]
    /\ UNCHANGED <<num_pages, max_bytes, run, page_index, part_index, writer>>

FlushFails ==
    /\ pc[run] = "flush"
    /\ Len(writer) > 0
    /\ Raise

\* split_pdf is called again with the same input_path and max_mb.
Rerun ==
    /\ run = 1
    /\ pc[run] \in {"done", "failed"}
    /\ run' = 2
    /\ pc' = [pc EXCEPT ![2] = "loop"]
    /\ EnterSplit
    /\ UNCHANGED <<num_pages, max_bytes, serialized, written>>

Next ==
    \/ AddPage
    \/ LoopEnd
    \/ Measure
    \/ MeasureFails
    \/ Rollback
    \/ RollbackFails
    \/ Solo
    \/ SoloFails
    \/ Flush
    \/ FlushFails
    \/ Rerun

Spec == Init /\ [][Next]_vars

----------------------------------------------------------------------------
(* Helpers of the properties. *)

IsPrefix(s, t) == Len(s) <= Len(t) /\ SubSeq(t, 1, Len(s)) = s

RECURSIVE Flatten(_)
\* The page sequences of the parts, concatenated in the order written.
Flatten(parts) ==
    IF parts = <<>> THEN <<>> ELSE Head(parts).pages \o Flatten(Tail(parts))

\* The page grouping of the parts: the page sequence of each, in order.
Groups(parts) == [k \in 1..Len(parts) |-> parts[k].pages]

\* The length of page p serialized alone.
SoloSize(p) == serialized[<<p>>]

\* Part k of run r is one page whose own length exceeds the ceiling.
Irreducible(part) ==
    /\ Len(part.pages) = 1
    /\ part.pages \in DOMAIN serialized
    /\ serialized[part.pages] > max_bytes

----------------------------------------------------------------------------
\* C1 (Completeness): in every run the pages of the parts written so far,
\* concatenated in the order written, are a prefix of the document's page
\* sequence (so every part is a contiguous run of pages in the original
\* order and no page is written twice), and when the run has finished they
\* are the whole document.
Completeness ==
    \A r \in Runs :
       /\ IsPrefix(Flatten(written[r]), Document)
       /\ pc[r] = "done" => Flatten(written[r]) = Document

\* A finished run that closed a two-page part by a rollback.
CompletenessWitness ==
    /\ pc[run] = "done"
    /\ Len(written[run]) >= 2
    /\ Len(written[run][1].pages) = 2
    /\ num_pages >= 3

\* C2 (Size bound except the irreducible case): every part written is at
\* most max_bytes long, or is a single page whose own length exceeds
\* max_bytes.
SizeBound ==
    \A r \in Runs : \A k \in 1..Len(written[r]) :
       \/ written[r][k].len <= max_bytes
       \/ Irreducible(written[r][k])

\* A run that wrote a part of two pages closed by a rollback and then the
\* page that overflowed alone, oversized.
SizeBoundWitness ==
    /\ Len(written[run]) >= 2
    /\ Len(written[run][1].pages) >= 2
    /\ Irreducible(written[run][2])

\* C3 (Invalid ceiling): with a ceiling of zero bytes or less the run fails
\* at entry, so that no part file is ever written.
InvalidCeilingWritesNothing ==
    max_bytes <= 0 => \A r \in Runs : written[r] = <<>>

\* C4 (Non-emptiness): every part written holds at least one page, and a
\* finished run has written no part exactly when the document has no page.
NonEmptiness ==
    \A r \in Runs :
       /\ \A k \in 1..Len(written[r]) : Len(written[r][k].pages) >= 1
       /\ pc[r] = "done" => (written[r] = <<>> <=> num_pages = 0)

\* A finished run whose first part is the one page left by a rollback out
\* of a builder of two pages.
NonEmptinessWitness ==
    /\ pc[run] = "done"
    /\ Len(written[run]) >= 2
    /\ Len(written[run][1].pages) = 1
    /\ ~Irreducible(written[run][1])

\* C5 (Monotonic numbering): the k-th write of a run is to part k of the
\* run's output directory, so the names used are part1..partK in order,
\* without a gap and each once.
MonotonicNumbering ==
    \A r \in Runs : \A k \in 1..Len(written[r]) :
       /\ written[r][k].index = k
       /\ written[r][k].path = output_path(r, k)

\* A finished run of three parts or more.
MonotonicNumberingWitness ==
    /\ pc[run] = "done"
    /\ Len(written[run]) >= 3

\* C6 as stated (Irreducible page): in a finished run every page whose own
\* length exceeds max_bytes is a part by itself.
OversizedPageAlone ==
    \A r \in Runs :
       pc[r] = "done" =>
          \A p \in 1..num_pages :
             SoloSize(p) > max_bytes =>
                \E k \in 1..Len(written[r]) : written[r][k].pages = <<p>>

\* No page sequence serialized so far is shorter than one of its pages
\* serialized alone.
NoSequenceShorterThanAPage ==
    \A w \in DOMAIN serialized :
       \A i \in 1..Len(w) : SoloSize(w[i]) <= serialized[w]

\* C6 as amended: when no page sequence serializes to fewer bytes than one
\* of its pages alone, in a finished run every page whose own length
\* exceeds max_bytes is a part by itself.
OversizedPageAloneIfMonotone ==
    NoSequenceShorterThanAPage => OversizedPageAlone

\* A finished run under such a serializer with a positive ceiling, where an
\* oversized page that is neither the first nor the last of the document
\* was written alone after a rollback.
OversizedPageAloneWitness ==
    /\ pc[run] = "done"
    /\ NoSequenceShorterThanAPage
    /\ max_bytes > 0
    /\ \E k \in 2..Len(written[run]) :
          /\ Irreducible(written[run][k])
          /\ written[run][k].pages[1] < num_pages
          /\ Len(written[run][k - 1].pages) >= 2

\* C7 (Determinism): two finished runs on the same document and ceiling
\* have written the same number of parts with the same page grouping.
Determinism ==
    (pc[1] = "done" /\ pc[2] = "done") =>
       Groups(written[1]) = Groups(written[2])

\* Two finished runs of two parts or more, the first part of several pages.
DeterminismWitness ==
    /\ pc[1] = "done"
    /\ pc[2] = "done"
    /\ Len(written[2]) >= 2
    /\ Len(written[2][1].pages) >= 2

\* C8 (Tie-break at the ceiling): a step that measures the builder at
\* exactly max_bytes keeps the page in the builder and goes on with the
\* loop; a rollback is entered, and the page reached by a rollback written
\* alone, only on a length strictly greater than max_bytes.
TieBreakStep ==
    /\ (pc[run] = "measure" /\ writer \in DOMAIN serialized'
           /\ serialized'[writer] = max_bytes /\ pc'[run] # "failed")
       => (pc'[run] = "loop" /\ writer' = writer /\ written' = written)
    /\ (pc[run] = "measure" /\ pc'[run] = "rollback")
       => serialized'[writer] > max_bytes
    /\ (pc[run] = "solo" /\ written' # written)
       => serialized'[writer] > max_bytes

TieBreak == [][TieBreakStep]_vars

\* A builder of two pages or more measured at exactly max_bytes and kept.
TieBreakWitness ==
    /\ pc[run] = "loop"
    /\ Len(writer) >= 2
    /\ writer \in DOMAIN serialized
    /\ serialized[writer] = max_bytes

\* C9 (No recovery, no rollback of output): a failed run stays failed and
\* writes nothing more; a step never removes, changes or overwrites a part
\* already written; and the parts of a failed run are the first parts, in
\* order, of the run of the same input that finished.
NoRecoveryState ==
    \A r \in Runs : \A q \in Runs :
       (pc[r] = "failed" /\ pc[q] = "done") =>
          IsPrefix(Groups(written[r]), Groups(written[q]))

NoRecoveryStep ==
    \A r \in Runs :
       /\ pc[r] = "failed" => (pc'[r] = "failed" /\ written'[r] = written[r])
       /\ pc'[r] = "failed" => written'[r] = written[r]
       /\ IsPrefix(written[r], written'[r])
       /\ \A k \in (Len(written[r]) + 1)..Len(written'[r]) :
             \A j \in 1..Len(written[r]) :
                written'[r][k].path # written[r][j].path

GreedyMaximality ==
    \A r \in Runs : \A k \in 1..Len(written[r]) :
       LET w == written[r][k].pages IN
       (Len(w) >= 1 /\ w[Len(w)] < num_pages) =>
          \/ /\ Append(w, w[Len(w)] + 1) \in DOMAIN serialized
             /\ serialized[Append(w, w[Len(w)] + 1)] > max_bytes
          \/ Irreducible(written[r][k])

\* A run that wrote a part of two pages and then an oversized page alone,
\* neither ending the document.
GreedyMaximalityWitness ==
    /\ Len(written[run]) >= 2
    /\ Len(written[run][1].pages) = 2
    /\ Irreducible(written[run][2])
    /\ written[run][2].pages[1] < num_pages
    /\ max_bytes > 0

====
